---------------------------- MODULE Spec2Model ----------------------------
(***************************************************************************)
(* Model of two components of the opencollective frontend:                 *)
(*   - ContributeTier (src/components/contribute-cards/ContributeTier.js): *)
(*     derives a tier card's contribution type, its disabled flag and its  *)
(*     route from a tier and its collective;                               *)
(*   - AddFundsModal (src/unnamed/part_000): a Formik form that shows a    *)
(*     host/platform fee split and submits an addFunds mutation.           *)
(* SpecTier drives the first, SpecModal the second.                        *)
(***************************************************************************)
EXTENDS Integers, Sequences, FiniteSets, TLC

(***************************************************************************)
(* JavaScript values.  Every value is a record tagged with its type, so    *)
(* that null, undefined, NaN, numbers, strings and objects stay distinct   *)
(* and truthiness / isNaN can be computed as the language computes them.   *)
(***************************************************************************)
Null == [t |-> "null"]

Undefined == [t |-> "undefined"]

NaN == [t |-> "NaN"]

Num(n) == [t |-> "number", v |-> n]

Str(s) == [t |-> "string", v |-> s]

Bool(b) == [t |-> "boolean", v |-> b]

Obj(o) == [t |-> "object", v |-> o]

\* An ISO date string, kept as the day it denotes (a non-empty string).
DateStr(d) == [t |-> "date", v |-> d]

\* ToBoolean: the test of `if (x)`, `x && y`, `!x`.
Truthy(x) ==
    CASE x.t = "number" -> x.v # 0
      [] x.t = "string" -> x.v # ""
      [] x.t = "boolean" -> x.v
      [] x.t = "object" -> TRUE
      [] x.t = "date" -> TRUE
      [] OTHER -> FALSE

\* Strict equality `x === n` against a number literal.
StrictEqNum(x, n) == x.t = "number" /\ x.v = n

\* Strict equality `x === s` against a string constant.
StrictEqStr(x, s) == x.t = "string" /\ x.v = s

(***************************************************************************)
(* Bounds of the tier model.                                               *)
(***************************************************************************)
MaxDate == 2

MaxQuantity == 1

Dates == 1..MaxDate

Slugs == {"webpack", "babel"}

TierSlugs == {"backers", "tickets"}

TierIds == {1, 2}

TierTypeValues == {"TIER", "DONATION", "PRODUCT", "TICKET", "MEMBERSHIP"}

\* A goal is a number of cents or absent; 0 is a number but is falsy.
GoalValues == {Null, Num(0), Num(5000)}

IntervalValues == {Null, Str("month")}

EndsAtValues == {Null} \cup {DateStr(d) : d \in Dates}

QuantityValues == {Null, Undefined} \cup {Num(q) : q \in 0..MaxQuantity}

Tiers ==
    [id : TierIds, slug : TierSlugs, type : {Str(ty) : ty \in TierTypeValues},
     goal : GoalValues, interval : IntervalValues, endsAt : EndsAtValues,
     stats : [availableQuantity : QuantityValues]]

ParentValues == {Undefined} \cup {Obj([slug |-> s]) : s \in Slugs}

Collectives ==
    [slug : Slugs, isActive : {Bool(TRUE), Bool(FALSE), Undefined},
     endsAt : EndsAtValues, parentCollective : ParentValues]

(***************************************************************************)
(* Bounds and input sets of the add-funds modal.                           *)
(***************************************************************************)
MaxSubmits == 2

MaxCancels == 1

\* Amounts in cents the amount input hands over; null is an emptied input.
AmountInputs == {Null, Num(1), Num(50), Num(1000)}

\* What a percentage input hands over: a number, NaN for unparsable text,
\* or null for an emptied field.
HostFeeInputs == {Num(10), Num(120), NaN, Null}

PlatformFeeInputs == {Num(0), Num(5), NaN, Null}

DescriptionInputs == {Str(""), Str("x")}

\* collective.hostFeePercent is an optional prop.
DefaultHostFeeValues == {Num(15), Undefined}

TheCollective(d) == Obj([id |-> Num(10), hostFeePercent |-> d])

\* The host is another account, or the collective itself (a self-hosted one).
Hosts == {Obj([id |-> Num(20)]), Obj([id |-> Num(10)])}

UserAccount == Obj([id |-> Str("user-7")])

(***************************************************************************)
(* State of the tier card: the props of one render, the clock the date     *)
(* helpers read, and what the render produced.                             *)
(***************************************************************************)
VARIABLES tier, collective, now, card

tierVars == <<tier, collective, now, card>>

NotRendered == [t |-> "none"]

TypeError == [t |-> "TypeError"]

\* lib/tier-utils isTierExpired(tier): the tier's own end date is in the past.
isTierExpired(tr, clock) == Truthy(tr.endsAt) /\ tr.endsAt.v < clock

\* lib/events isPastEvent(collective): the collective's end date is in the past.
isPastEvent(c, clock) == Truthy(c.endsAt) /\ c.endsAt.v < clock


\* Variant: the type checks are made before the goal check.
getContributionTypeFromTier_typeFirst(tr, isPassed) ==
    IF isPassed THEN "TIER_PASSED"
    ELSE IF StrictEqStr(tr.type, "PRODUCT") THEN "PRODUCT"
    ELSE IF StrictEqStr(tr.type, "TICKET") THEN "TICKET"
    ELSE IF StrictEqStr(tr.type, "MEMBERSHIP") THEN "MEMBERSHIP"
    ELSE IF Truthy(tr.goal) THEN "FINANCIAL_GOAL"
    ELSE IF Truthy(tr.interval) THEN "FINANCIAL_RECURRING"
    ELSE "FINANCIAL_ONE_TIME"


getContributionTypeFromTier(tr, isPassed) ==
    IF isPassed THEN "TIER_PASSED"
    ELSE IF Truthy(tr.goal) THEN "FINANCIAL_GOAL"
    ELSE IF StrictEqStr(tr.type, "PRODUCT") THEN "PRODUCT"
    ELSE IF StrictEqStr(tr.type, "TICKET") THEN "TICKET"
    ELSE IF StrictEqStr(tr.type, "MEMBERSHIP") THEN "MEMBERSHIP"
    ELSE IF Truthy(tr.interval) THEN "FINANCIAL_RECURRING"
    ELSE "FINANCIAL_ONE_TIME"

\* const tierIsExpired = isTierExpired(tier)
tierIsExpired(tr, clock) == isTierExpired(tr, clock)


\* Variant: a past event makes its tiers count as passed.
tierType_pastEvent(tr, c, clock) ==
    getContributionTypeFromTier(tr, tierIsExpired(tr, clock) \/ isPastEvent(c, clock))

\* const tierType = getContributionTypeFromTier(tier, tierIsExpired)
tierType(tr, c, clock) == getContributionTypeFromTier(tr, tierIsExpired(tr, clock))


\* Variant: `!tier.stats.availableQuantity`, which also holds of null.
hasNoneLeft_falsy(tr) == ~Truthy(tr.stats.availableQuantity)

\* const hasNoneLeft = tier.stats.availableQuantity === 0
hasNoneLeft(tr) == StrictEqNum(tr.stats.availableQuantity, 0)

\* const canContributeToCollective = collective.isActive && !isPastEvent(collective)
canContributeToCollective(c, clock) == Truthy(c.isActive) /\ ~isPastEvent(c, clock)


\* Variant: a sold-out tier is not disabled.
isDisabled_ignoreQuantity(tr, c, clock) ==
    ~canContributeToCollective(c, clock) \/ tierIsExpired(tr, clock)

\* const isDisabled = !canContributeToCollective || tierIsExpired || hasNoneLeft
isDisabled(tr, c, clock) ==
    ~canContributeToCollective(c, clock) \/ tierIsExpired(tr, clock) \/ hasNoneLeft(tr)


\* Variant: the event's own slug is used as the collective slug.
ticketRoute_ownSlug(tr, c) ==
    [route |-> "orderEventTier",
     routeParams |-> [collectiveSlug |-> c.slug, verb |-> "events",
                      eventSlug |-> c.slug, tierId |-> tr.id]]

\* The route of a TICKET card; reading .slug of an absent parent throws.
ticketRoute(tr, c) ==
    [route |-> "orderEventTier",
     routeParams |-> [collectiveSlug |-> c.parentCollective.v.slug, verb |-> "events",
                      eventSlug |-> c.slug, tierId |-> tr.id]]

\* The route of every other card.
tierRoute(tr, c) ==
    [route |-> "orderCollectiveTierNew",
     routeParams |-> [collectiveSlug |-> c.slug, verb |-> "contribute",
                      tierSlug |-> tr.slug, tierId |-> tr.id]]

\* One render of the component: the props handed to <Contribute>, or the
\* TypeError thrown while building the ticket route.
ContributeTier(tr, c, clock) ==
    LET ty == tierType(tr, c, clock) IN
    IF ty = "TICKET" /\ c.parentCollective.t # "object" THEN TypeError
    ELSE LET r == IF ty = "TICKET" THEN ticketRoute(tr, c) ELSE tierRoute(tr, c) IN
         [t |-> "card", route |-> r.route, routeParams |-> r.routeParams,
          type |-> ty, disableCTA |-> isDisabled(tr, c, clock), goal |-> tr.goal,
          interval |-> tr.interval]

(***************************************************************************)
(* State of the add-funds modal.                                           *)
(*   LoggedInUser   "none", "member" or "root" (useUser)                   *)
(*   props          the host and collective props                          *)
(*   values, errors, isSubmitting   Formik's form state                    *)
(*   mutationError  the error of useMutation                               *)
(*   request        the mutation request the last step handed to the       *)
(*                  GraphQL client (NoRequest when it sent none)            *)
(*   nSubmits, nSent, nSucceeded, nFailed   submit clicks, requests sent,  *)
(*                  requests answered with success / with an error         *)
(*   nCancels, closeCalls   cancel clicks, calls of props.onClose          *)
(*   mounted        the parent still renders the modal                     *)
(*   view           what the last render displayed                         *)
(***************************************************************************)
VARIABLES LoggedInUser, props, values, errors, isSubmitting, mutationError,
          request, nSubmits, nSent, nSucceeded, nFailed, nCancels,
          closeCalls, mounted, view

modalVars ==
    <<LoggedInUser, props, values, errors, isSubmitting, mutationError,
      request, nSubmits, nSent, nSucceeded, nFailed, nCancels,
      closeCalls, mounted, view>>

vars == <<tierVars, modalVars>>

Nothing == [t |-> "nothing"]

NoRequest == [t |-> "none"]

\* ToNumber of the values the form holds: null is 0, undefined is NaN.
ToNumber(x) ==
    CASE x.t = "number" -> x
      [] x.t = "null" -> Num(0)
      [] OTHER -> NaN

\* The global isNaN(x): ToNumber(x) is NaN.
isNaN(x) == ToNumber(x) = NaN

\* The integers Math.round(amount * (percent / 100)) can give for a
\* non-negative amount * percent product `ap`.  Math.round rounds a half up,
\* but the double product of an exact half may fall just below it
\* (50 * (29 / 100) is 14.499999999999998), so a half gives either neighbour.
MathRound(ap) ==
    LET q == ap \div 100
        r == ap % 100
    IN  IF r < 50 THEN {q} ELSE IF r > 50 THEN {q + 1} ELSE {q, q + 1}

\* Math.round(values.amount * (percent / 100)) as JavaScript values.
feeOf(amount, percent) ==
    LET a == ToNumber(amount)
        pc == ToNumber(percent)
    IN  IF a = NaN \/ pc = NaN THEN {NaN} ELSE {Num(k) : k \in MathRound(a.v * pc.v)}


\* Variant: the platform fee is not deducted.
netOf_hostOnly(amount, hostFee, platformFee) ==
    LET a == ToNumber(amount)
    IN  IF a = NaN \/ hostFee = NaN \/ platformFee = NaN THEN NaN
        ELSE Num(a.v - hostFee.v)

\* values.amount - hostFee - platformFee
netOf(amount, hostFee, platformFee) ==
    LET a == ToNumber(amount)
    IN  IF a = NaN \/ hostFee = NaN \/ platformFee = NaN THEN NaN
        ELSE Num(a.v - hostFee.v - platformFee.v)

getInitialValues(vals) ==
    [amount |-> Null,
     hostFeePercent |-> vals.hostFeePercent,
     platformFeePercent |-> Num(0),
     description |-> Str(""),
     fromAccount |-> Null,
     account |-> vals.account]

\* lib/form-utils requireFields(values, fields): the fields that are missing.
requireFields(vals, fields) ==
    {f \in fields :
        \/ vals[f] \in {Null, Undefined}
        \/ vals[f] = Str("")}


\* Variant: the source account is not required.
validate_noSource(vals) == requireFields(vals, {"amount", "description"})


validate(vals) == requireFields(vals, {"amount", "fromAccount", "description"})

buildAccountReference(input) ==
    IF input.v.id.t = "string" THEN Obj([id |-> input.v.id])
    ELSE Obj([legacyId |-> input.v.id])

defaultHostFeePercent(pr) == pr.collective.v.hostFeePercent

\* (collective.legacyId || collective.id) !== (host.legacyId || host.id)
canAddHostFee(pr) == pr.collective.v.id # pr.host.v.id

isRoot(user) == user = "root"

\* Formik: dirty is "values differ from initialValues".
initialValues(pr) ==
    getInitialValues([hostFeePercent |-> defaultHostFeePercent(pr), account |-> pr.collective])

dirty(vals, pr) == vals # initialValues(pr)

\* Formik: isValid is "no errors".
isValid(errs) == errs = {}

\* The variables handed to submitAddFunds by onSubmit.
onSubmitVariables(vals) ==
    [amount |-> [valueInCents |-> vals.amount],
     hostFeePercent |-> vals.hostFeePercent,
     platformFeePercent |-> vals.platformFeePercent,
     description |-> vals.description,
     fromAccount |-> buildAccountReference(vals.fromAccount),
     account |-> buildAccountReference(vals.account)]

\* const hostFeePercent = isNaN(values.hostFeePercent) ? defaultHostFeePercent : ...
effectiveHostFeePercent(vals, pr) ==
    IF isNaN(vals.hostFeePercent) THEN defaultHostFeePercent(pr) ELSE vals.hostFeePercent

\* const platformFeePercent = isNaN(values.platformFeePercent) ? 0 : ...
effectivePlatformFeePercent(vals) ==
    IF isNaN(vals.platformFeePercent) THEN Num(0) ELSE vals.platformFeePercent

\* disabled={!dirty || !isValid}
submitDisabled(vals, errs, pr) == ~dirty(vals, pr) \/ ~isValid(errs)

\* The renders the component can produce for a form state: nothing without a
\* logged-in user, otherwise the fields offered and the amount details.
AddFundsModal(user, pr, vals, errs, submitting, err) ==
    IF user = "none" THEN {Nothing}
    ELSE
      LET hostFeePercent == effectiveHostFeePercent(vals, pr)
          platformFeePercent == effectivePlatformFeePercent(vals)
      IN  {[t |-> "modal",
            hostFeeField |-> canAddHostFee(pr),
            platformFeeField |-> isRoot(user),
            fundingAmount |-> IF Truthy(vals.amount) THEN vals.amount ELSE Num(0),
            hostFeePercent |-> hostFeePercent,
            platformFeePercent |-> platformFeePercent,
            hostFee |-> hostFee,
            platformFee |-> platformFee,
            netAmount |-> netOf(vals.amount, hostFee, platformFee),
            error |-> err,
            submitDisabled |-> submitDisabled(vals, errs, pr),
            loading |-> submitting] :
              hostFee \in feeOf(vals.amount, hostFeePercent),
              platformFee \in feeOf(vals.amount, platformFeePercent)}

pending == nSent - nSucceeded - nFailed

\* The tier card is not on screen.
TierIdle ==
    /\ tier = CHOOSE tr \in Tiers : TRUE
    /\ collective = CHOOSE c \in Collectives : TRUE
    /\ now = 1
    /\ card = NotRendered

ModalProps == [host : Hosts, collective : {TheCollective(d) : d \in DefaultHostFeeValues}]

InitModalVars ==
    /\ LoggedInUser \in {"none", "member", "root"}
    /\ props \in ModalProps
    /\ values = initialValues(props)
    /\ errors = {}
    /\ isSubmitting = FALSE
    /\ mutationError = Undefined
    /\ request = NoRequest
    /\ nSubmits = 0 /\ nSent = 0 /\ nSucceeded = 0 /\ nFailed = 0
    /\ nCancels = 0 /\ closeCalls = 0
    /\ mounted = TRUE
    /\ view \in AddFundsModal(LoggedInUser, props, values, errors, isSubmitting, mutationError)

\* The modal is not on screen.
ModalIdle ==
    /\ InitModalVars
    /\ LoggedInUser = "none"
    /\ props = CHOOSE pr \in ModalProps : TRUE

InitTier ==
    /\ tier \in Tiers
    /\ collective \in Collectives
    /\ now \in Dates
    /\ card = NotRendered
    /\ ModalIdle

\* React renders the component with the current props.
Render ==
    /\ card = NotRendered
    /\ card' = ContributeTier(tier, collective, now)
    /\ UNCHANGED <<tier, collective, now>>
    /\ UNCHANGED modalVars

NextTier == Render

SpecTier == InitTier /\ [][NextTier]_vars

InitModal == TierIdle /\ InitModalVars

\* A form the user can act on.
Interactive == mounted /\ LoggedInUser # "none"

\* form.setFieldValue(name, value): Formik stores the value, validates the new
\* values and the component renders again.
setFieldValue(name, value) ==
    LET vals == [values EXCEPT ![name] = value]
        errs == validate(vals)
    IN  /\ values' = vals
        /\ errors' = errs
        /\ view' \in AddFundsModal(LoggedInUser, props, vals, errs, isSubmitting, mutationError)
        /\ UNCHANGED <<LoggedInUser, props, isSubmitting, mutationError,
                       nSubmits, nSent, nSucceeded, nFailed, nCancels, closeCalls, mounted>>
        /\ request' = NoRequest
        /\ UNCHANGED tierVars

ChangeAmount ==
    /\ Interactive
    /\ \E v \in AmountInputs : setFieldValue("amount", v)

ChangeHostFeePercent ==
    /\ Interactive
    /\ view.hostFeeField
    /\ \E v \in HostFeeInputs : setFieldValue("hostFeePercent", v)


\* Variant: the platform-fee field is offered to every logged-in user.
ChangePlatformFeePercent_anyUser ==
    /\ Interactive
    /\ \E v \in PlatformFeeInputs : setFieldValue("platformFeePercent", v)


ChangePlatformFeePercent ==
    /\ Interactive
    /\ view.platformFeeField
    /\ \E v \in PlatformFeeInputs : setFieldValue("platformFeePercent", v)

ChangeDescription ==
    /\ Interactive
    /\ \E v \in DescriptionInputs : setFieldValue("description", v)

\* The picker offers the host and the accounts found by the search.
ChangeFromAccount ==
    /\ Interactive
    /\ \E v \in {props.host, UserAccount} : setFieldValue("fromAccount", v)

\* A click on the enabled "Add Funds" button: Formik validates, and when there
\* is no error calls onSubmit, which sends the mutation request.
Submit ==
    /\ Interactive
    /\ ~view.submitDisabled
    /\ nSubmits < MaxSubmits
    /\ nSubmits' = nSubmits + 1
    /\ LET errs == validate(values) IN
         /\ errors' = errs
         /\ IF errs = {}
            THEN /\ isSubmitting' = TRUE
                 /\ mutationError' = Undefined
                 /\ request' = onSubmitVariables(values)
                 /\ nSent' = nSent + 1
            ELSE /\ isSubmitting' = FALSE
                 /\ request' = NoRequest
                 /\ UNCHANGED <<mutationError, nSent>>
         /\ view' \in AddFundsModal(LoggedInUser, props, values, errs, isSubmitting',
                                    mutationError')
    /\ UNCHANGED <<LoggedInUser, props, values, nSucceeded, nFailed, nCancels,
                   closeCalls, mounted>>
    /\ UNCHANGED tierVars

\* The render after a change of the submission state, if the modal is still on
\* screen.
rerender(submitting, err) ==
    IF mounted
    THEN view' \in AddFundsModal(LoggedInUser, props, values, errors, submitting, err)
    ELSE view' = view

\* The request is answered with a result: the promise resolves and
\* .then(props.onClose) runs.
MutationSucceeds ==
    /\ pending > 0
    /\ nSucceeded' = nSucceeded + 1
    /\ closeCalls' = closeCalls + 1
    /\ isSubmitting' = FALSE
    /\ rerender(FALSE, mutationError)
    /\ UNCHANGED <<LoggedInUser, props, values, errors, mutationError,
                   nSubmits, nSent, nFailed, nCancels, mounted>>
    /\ request' = NoRequest
    /\ UNCHANGED tierVars


\* Variant: .finally(props.onClose), which also closes after an error.
MutationFails_closes ==
    /\ pending > 0
    /\ nFailed' = nFailed + 1
    /\ closeCalls' = closeCalls + 1
    /\ mutationError' = Obj([message |-> "GraphQL error"])
    /\ isSubmitting' = FALSE
    /\ rerender(FALSE, mutationError')
    /\ UNCHANGED <<LoggedInUser, props, values, errors, nSubmits, nSent,
                   nSucceeded, nCancels, mounted>>
    /\ request' = NoRequest
    /\ UNCHANGED tierVars

\* The request is answered with an error: the promise rejects, useMutation
\* exposes the error and the then-callback is skipped.
MutationFails ==
    /\ pending > 0
    /\ nFailed' = nFailed + 1
    /\ mutationError' = Obj([message |-> "GraphQL error"])
    /\ isSubmitting' = FALSE
    /\ rerender(FALSE, mutationError')
    /\ UNCHANGED <<LoggedInUser, props, values, errors, nSubmits, nSent,
                   nSucceeded, nCancels, closeCalls, mounted>>
    /\ request' = NoRequest
    /\ UNCHANGED tierVars

\* A click on the Cancel button: onClick={props.onClose}.
Cancel ==
    /\ Interactive
    /\ nCancels < MaxCancels
    /\ nCancels' = nCancels + 1
    /\ closeCalls' = closeCalls + 1
    /\ UNCHANGED <<LoggedInUser, props, values, errors, isSubmitting, mutationError,
                   nSubmits, nSent, nSucceeded, nFailed, mounted, view>>
    /\ request' = NoRequest
    /\ UNCHANGED tierVars

\* The parent, told to close, stops rendering the modal.
Unmount ==
    /\ mounted
    /\ closeCalls > 0
    /\ mounted' = FALSE
    /\ view' = Nothing
    /\ UNCHANGED <<LoggedInUser, props, values, errors, isSubmitting, mutationError,
                   nSubmits, nSent, nSucceeded, nFailed, nCancels, closeCalls>>
    /\ request' = NoRequest
    /\ UNCHANGED tierVars

NextModal ==
    \/ ChangeAmount
    \/ ChangeHostFeePercent
    \/ ChangePlatformFeePercent
    \/ ChangeDescription
    \/ ChangeFromAccount
    \/ Submit
    \/ MutationSucceeds
    \/ MutationFails
    \/ Cancel
    \/ Unmount

SpecModal == InitModal /\ [][NextModal]_vars

(***************************************************************************)
(* Properties of the tier card.  The conditions are spelled out on the     *)
(* props themselves, not through the operators of the component.           *)
(***************************************************************************)
Rendered == card.t = "card"

\* The tier's own end date lies before the clock.
OwnEndDatePassed == tier.endsAt.t = "date" /\ tier.endsAt.v < now

\* The collective is an event whose end date lies before the clock.
CollectiveIsPastEvent == collective.endsAt.t = "date" /\ collective.endsAt.v < now

CollectiveIsActive == collective.isActive = Bool(TRUE)

GoalSet == tier.goal.t = "number" /\ tier.goal.v # 0

IntervalSet == tier.interval.t = "string" /\ tier.interval.v # ""

QuantityAbsent == tier.stats.availableQuantity \in {Null, Undefined}

\* The category the priority list gives, each line carrying the negation of
\* the lines above it.
ExpectedCategory ==
    CASE OwnEndDatePassed -> "TIER_PASSED"
      [] ~OwnEndDatePassed /\ GoalSet -> "FINANCIAL_GOAL"
      [] ~OwnEndDatePassed /\ ~GoalSet /\ tier.type = Str("PRODUCT") -> "PRODUCT"
      [] ~OwnEndDatePassed /\ ~GoalSet /\ tier.type = Str("TICKET") -> "TICKET"
      [] ~OwnEndDatePassed /\ ~GoalSet /\ tier.type = Str("MEMBERSHIP") -> "MEMBERSHIP"
      [] ~OwnEndDatePassed /\ ~GoalSet /\ IntervalSet
           /\ tier.type \notin {Str("PRODUCT"), Str("TICKET"), Str("MEMBERSHIP")}
           -> "FINANCIAL_RECURRING"
      [] OTHER -> "FINANCIAL_ONE_TIME"

\* C1: the type handed to the card is the first matching category of the
\* priority list expired, goal, PRODUCT, TICKET, MEMBERSHIP, interval, one-time;
\* an expired tier is TIER_PASSED whatever its other fields, and a non-expired
\* tier with a goal is FINANCIAL_GOAL whatever its type.  (A render that throws
\* is one whose category was TICKET.)
C1_CategoryPriority ==
    /\ Rendered => card.type = ExpectedCategory
    /\ Rendered /\ OwnEndDatePassed => card.type = "TIER_PASSED"
    /\ Rendered /\ ~OwnEndDatePassed /\ GoalSet => card.type = "FINANCIAL_GOAL"
    /\ card = TypeError => ExpectedCategory = "TICKET"

C1_Witness ==
    /\ Rendered
    /\ ~OwnEndDatePassed /\ GoalSet /\ tier.type = Str("PRODUCT")
    /\ card.type = "FINANCIAL_GOAL"

\* C2 as claimed: every tier of a past-event collective is handed to the card as
\* TIER_PASSED.
C2_PastEventIsPassed == Rendered /\ CollectiveIsPastEvent => card.type = "TIER_PASSED"

\* C2 amended: a past event disables the call-to-action of each of its tiers,
\* but the category is TIER_PASSED exactly when the tier's own end date is past.
C2_PastEventDisablesOnly ==
    Rendered /\ CollectiveIsPastEvent =>
        /\ card.disableCTA
        /\ card.type = "TIER_PASSED" <=> OwnEndDatePassed

C2_Witness ==
    /\ Rendered /\ CollectiveIsPastEvent /\ tier.endsAt = Null
    /\ card.disableCTA /\ card.type = "TICKET"

\* C3: the call-to-action is disabled iff the collective is not active, or is a
\* past event, or the tier is expired, or its available quantity is exactly 0.
C3_DisabledIff ==
    Rendered =>
        (card.disableCTA <=>
            \/ ~CollectiveIsActive
            \/ CollectiveIsPastEvent
            \/ OwnEndDatePassed
            \/ tier.stats.availableQuantity = Num(0))

C3_Witness ==
    /\ Rendered /\ CollectiveIsActive /\ ~CollectiveIsPastEvent /\ ~OwnEndDatePassed
    /\ tier.stats.availableQuantity = Num(0)
    /\ card.disableCTA

\* C4 as claimed: quantity absent, collective active and tier not expired give
\* an enabled call-to-action, whatever the other fields.
C4_AbsentQuantityEnabled ==
    Rendered /\ QuantityAbsent /\ CollectiveIsActive /\ ~OwnEndDatePassed
        => ~card.disableCTA

\* C4 amended: quantity absent, collective active and not a past event, and
\* tier not expired give an enabled call-to-action.
C4_AbsentQuantityEnabledUnlessPastEvent ==
    Rendered /\ QuantityAbsent /\ CollectiveIsActive /\ ~CollectiveIsPastEvent
             /\ ~OwnEndDatePassed
        => ~card.disableCTA

C4_Witness ==
    /\ Rendered /\ tier.stats.availableQuantity = Null /\ CollectiveIsActive
    /\ ~CollectiveIsPastEvent /\ ~OwnEndDatePassed /\ tier.endsAt # Null
    /\ ~card.disableCTA

\* C8: a TICKET card routes to orderEventTier with the parent's slug, the
\* event's slug and the tier id; every other card routes to
\* orderCollectiveTierNew with the collective's slug, the tier's slug and the
\* tier id; a TICKET category without a parent collective throws.
C8_RouteFollowsCategory ==
    /\ Rendered /\ card.type = "TICKET" =>
          /\ card.route = "orderEventTier"
          /\ collective.parentCollective.t = "object"
          /\ card.routeParams.collectiveSlug = collective.parentCollective.v.slug
          /\ card.routeParams.eventSlug = collective.slug
          /\ card.routeParams.tierId = tier.id
    /\ Rendered /\ card.type # "TICKET" =>
          /\ card.route = "orderCollectiveTierNew"
          /\ card.routeParams.collectiveSlug = collective.slug
          /\ card.routeParams.tierSlug = tier.slug
          /\ card.routeParams.tierId = tier.id
    /\ Rendered => (card.type = "TICKET" <=> ExpectedCategory = "TICKET")
    /\ card # NotRendered /\ ExpectedCategory = "TICKET"
          /\ collective.parentCollective.t # "object" => card = TypeError

C8_Witness ==
    /\ Rendered /\ card.type = "TICKET" /\ card.route = "orderEventTier"
    /\ card.routeParams.collectiveSlug # card.routeParams.eventSlug

\* A goal-bearing TICKET tier takes the collective route.
C8_WitnessGoalTicket ==
    /\ Rendered /\ tier.type = Str("TICKET") /\ GoalSet
    /\ card.route = "orderCollectiveTierNew"

(***************************************************************************)
(* Properties of the add-funds modal.                                      *)
(***************************************************************************)
Shown == view.t = "modal"

IsNumber(x) == x.t = "number"

AllNumeric ==
    /\ IsNumber(values.amount)
    /\ IsNumber(values.hostFeePercent)
    /\ IsNumber(values.platformFeePercent)

\* fee is an integer nearest to amount * percent / 100.
NearestFee(fee, amount, percent) ==
    /\ IsNumber(fee)
    /\ 100 * fee.v - amount.v * percent.v <= 50
    /\ amount.v * percent.v - 100 * fee.v <= 50

FeesExceedAmount == values.hostFeePercent.v + values.platformFeePercent.v > 100

\* What C5 says of every numeric form state, but for the sign of the net amount.
SplitOfNumericForm ==
    /\ NearestFee(view.hostFee, values.amount, values.hostFeePercent)
    /\ NearestFee(view.platformFee, values.amount, values.platformFeePercent)
    /\ IsNumber(view.netAmount)
    /\ view.netAmount.v = values.amount.v - view.hostFee.v - view.platformFee.v
    /\ view.hostFee.v + view.platformFee.v + view.netAmount.v = values.amount.v
    /\ (values.amount = Num(1000) /\ values.hostFeePercent = Num(10)
            /\ values.platformFeePercent = Num(5))
          => /\ view.hostFee = Num(100)
             /\ view.platformFee = Num(50)
             /\ view.netAmount = Num(850)

\* C5 as claimed: with numeric amount and percents the displayed fees are the
\* rounded products, the net amount is amount - hostFee - platformFee, the three
\* add up to the amount, (1000, 10, 5) gives 100 / 50 / 850, and percents that
\* sum to more than 100 give a negative net amount.
C5_SplitNegativeNet ==
    Shown /\ AllNumeric =>
        /\ SplitOfNumericForm
        /\ FeesExceedAmount => view.netAmount.v < 0

\* C5 amended: as claimed, except that percents that sum to more than 100 give
\* a net amount that is never positive (it is 0 when the fees round down to
\* the amount, as for 1 cent at 120%), and still a number.
C5_SplitNonPositiveNet ==
    Shown /\ AllNumeric =>
        /\ SplitOfNumericForm
        /\ FeesExceedAmount => view.netAmount.v <= 0

C5_Witness ==
    /\ Shown
    /\ values.amount = Num(50) /\ values.hostFeePercent = Num(120)
    /\ values.platformFeePercent = Num(5)
    /\ view.hostFee = Num(60) /\ view.platformFee = Num(3) /\ view.netAmount = Num(-13)

\* The (1000, 10, 5) example is displayed as 100 / 50 / 850.
C5_WitnessExample ==
    /\ Shown
    /\ values.amount = Num(1000) /\ values.hostFeePercent = Num(10)
    /\ values.platformFeePercent = Num(5)
    /\ view.netAmount = Num(850)

\* C6: a hostFeePercent that is not a number (NaN, undefined, null) makes the
\* split use the collective's default host-fee rate, and a platformFeePercent
\* that is not a number makes it use a platform rate of 0.
C6_NonNumericUsesDefaults ==
    Shown =>
        /\ ~IsNumber(values.hostFeePercent) =>
              view.hostFee \in feeOf(values.amount, props.collective.v.hostFeePercent)
        /\ ~IsNumber(values.platformFeePercent) =>
              view.platformFee \in feeOf(values.amount, Num(0))
        /\ (values.amount = Num(1000) /\ ~IsNumber(values.hostFeePercent)
              /\ ~IsNumber(values.platformFeePercent)
              /\ props.collective.v.hostFeePercent = Num(15))
            => /\ view.hostFee = Num(150)
               /\ view.platformFee = Num(0)
               /\ view.netAmount = Num(850)

\* The required fields the form state lacks.
MissingRequired ==
    (IF values.amount \in {Null, Undefined} THEN {"amount"} ELSE {})
      \cup (IF values.fromAccount \in {Null, Undefined} THEN {"fromAccount"} ELSE {})
      \cup (IF values.description = Str("") THEN {"description"} ELSE {})

\* C7: validation returns exactly the missing ones of amount, fromAccount and
\* description ({amount: 500, fromAccount: null, description: "x"} gives only
\* fromAccount); while the error set is non-empty the submit button is disabled
\* and no mutation request is sent.
C7_ValidationGate ==
    /\ validate(values) = MissingRequired
    /\ validate([amount |-> Num(500), fromAccount |-> Null, description |-> Str("x")])
         = {"fromAccount"}
    /\ errors \subseteq {"amount", "fromAccount", "description"}
    /\ Shown /\ (errors # {} \/ MissingRequired # {}) => view.submitDisabled
    /\ request # NoRequest => errors = {} /\ MissingRequired = {}

C7_Witness ==
    /\ Shown /\ dirty(values, props)
    /\ errors = {"fromAccount"}
    /\ values.amount # Null /\ values.description = Str("x")
    /\ view.submitDisabled /\ nSent = 0

\* C9: onClose is called once per cancel click and once per succeeded request
\* and never otherwise; a failed request closes nothing, changes no form value
\* and sends nothing; every request sent is sent by one submit.
C9_CloseOnlyOnCancelOrSuccess ==
    /\ [](closeCalls = nCancels + nSucceeded)
    /\ [][nFailed' # nFailed =>
            /\ closeCalls' = closeCalls
            /\ values' = values
            /\ nSent' = nSent
            /\ request' = NoRequest]_vars
    /\ [][nSent' # nSent =>
            /\ nSent' = nSent + 1
            /\ nSubmits' = nSubmits + 1
            /\ request' # NoRequest]_vars
    /\ [](nSent <= nSubmits)

C9_Witness ==
    /\ Shown /\ nFailed = 1 /\ nSucceeded = 0 /\ nSent = 1
    /\ closeCalls = 0 /\ view.error # Undefined

\* A cancelled modal whose request then succeeds is told to close twice.
C9_WitnessSuccess == nSucceeded = 1 /\ nCancels = 1 /\ closeCalls = 2

\* C10: for a user who is not root the platform-fee field is not offered, so
\* the form's platformFeePercent, the one sent in a request and the displayed
\* platform fee are all 0; without a logged-in user nothing is rendered and no
\* request is sent.
C10_PlatformFeeRootOnly ==
    /\ LoggedInUser = "member" =>
          /\ values.platformFeePercent = Num(0)
          /\ request # NoRequest => request.platformFeePercent = Num(0)
          /\ Shown => ~view.platformFeeField /\ view.platformFee = Num(0)
    /\ LoggedInUser = "none" =>
          /\ view = Nothing
          /\ request = NoRequest
          /\ nSent = 0 /\ nSubmits = 0

C10_Witness ==
    /\ LoggedInUser = "member"
    /\ request # NoRequest /\ request.amount.valueInCents = Num(1000)
    /\ request.platformFeePercent = Num(0)

\* C11: the hostFeePercent and platformFeePercent a mutation request carries
\* are the effective percents the displayed fees and net amount were computed
\* with (the default rate, respectively 0, for a non-numeric field), and its
\* amount is the displayed funding amount.
C11_RequestMatchesDisplay ==
    request # NoRequest =>
        /\ Shown
        /\ request.hostFeePercent = view.hostFeePercent
        /\ request.platformFeePercent = view.platformFeePercent
        /\ request.amount.valueInCents = view.fundingAmount

====
